---- MODULE Spec2Model ----
(***************************************************************************)
(* ink-rpc: the JSON-RPC 2.0 request and response envelopes.               *)
(*                                                                         *)
(*   src/src/request.rs   RpcRequest, the process-wide NEXT_ID counter     *)
(*   src/src/response.rs  RpcResponse, a wrapper around one JSON document  *)
(*                                                                         *)
(* The integer width of the id counter is scaled from 64 to W bits, so     *)
(* that the wrap of the counter is within reach of the model checker.      *)
(***************************************************************************)
EXTENDS Integers, Sequences, FiniteSets, TLC

(***************************************************************************)
(* Bounds of the model.                                                    *)
(***************************************************************************)
\* Width in bits of the scaled u64 (the code's width is 64).
W == 2
\* Number of threads that call RpcRequest::new() concurrently.
NumThreads == 2
\* Total number of RpcRequest::new() calls that are started.
MaxCalls == 5

U64Max == 2^W - 1
U64 == 0..U64Max
Threads == 1..NumThreads
\* The thread that drives the setters of the Request it owns.
MainThread == CHOOSE t \in Threads : \A u \in Threads : t <= u

(***************************************************************************)
(* serde_json::Value.  A number is PosInt (u64), NegInt (negative i64) or  *)
(* Float; a float is kept as twice its value, so that 1.5 is Float(3) and  *)
(* 2.0 is Float(4).  An object is a function from its keys to values.      *)
(***************************************************************************)
Null == [kind |-> "null"]
Bool(b) == [kind |-> "bool", b |-> b]
UInt(n) == [kind |-> "uint", n |-> n]
NegInt(n) == [kind |-> "negint", n |-> n]
Float(twice) == [kind |-> "float", twice |-> twice]
Str(s) == [kind |-> "string", s |-> s]
Array(items) == [kind |-> "array", items |-> items]
Object(map) == [kind |-> "object", map |-> map]

EmptyMap == [k \in {} |-> Null]

\* Value::get(key): Some(v) only for an object that holds the key.
HasKey(v, key) == v.kind = "object" /\ key \in DOMAIN v.map

\* Value::as_u64: Some(n) only for a number stored as PosInt.
IsU64(v) == v.kind = "uint" /\ v.n \in U64

\* Map::insert(key, x): the other entries are kept.
Insert(map, key, x) == [k \in DOMAIN map \cup {key} |-> IF k = key THEN x ELSE map[k]]

(***************************************************************************)
(* RpcRequest: the record and its pure operations.                         *)
(***************************************************************************)
NoRequest == [none |-> TRUE]

Request(jsonrpc, method, params, id) ==
    [jsonrpc |-> jsonrpc, method |-> method, params |-> params, id |-> id]

\* AtomicU64::fetch_add(1): the value the counter holds after the call.
FetchAddZero(counter) == counter
FetchAddTwo(counter) == (counter + 2) % (2^W)
FetchAddSaturating(counter) == IF counter = 2^W - 1 THEN counter ELSE counter + 1
FetchSub(counter) == (counter - 1) % (2^W)
fetch_add(counter) == (counter + 1) % (2^W)

\* RpcRequest::new, given the value fetch_add returned.
NewWithoutVersion(id) == Request("", "", Null, id)
RpcRequest_new(id) == Request("2.0", "", Null, id)

SetMethodRebuilds(r, method) == Request("2.0", method, Null, 0)
RpcRequest_set_method(r, method) == [r EXCEPT !.method = method]

SetParamsStructuredOnly(r, params) ==
    [r EXCEPT !.params = IF params.kind \in {"array", "object"} THEN params ELSE Null]
RpcRequest_set_params(r, params) == [r EXCEPT !.params = params]

\* serde_json::to_value of the derived Serialize: an object of the four fields.
ToJsonDropsParams(r) ==
    Object([jsonrpc |-> Str(r.jsonrpc), method |-> Str(r.method),
            params |-> Null, id |-> UInt(r.id)])
RpcRequest_to_json(r) ==
    Object([jsonrpc |-> Str(r.jsonrpc), method |-> Str(r.method),
            params |-> r.params, id |-> UInt(r.id)])

\* The derived Clone: a copy with the same four fields.
CloneResetsId(r) == [r EXCEPT !.id = 0]
RpcRequest_clone(r) == r

Ok(r) == [ok |-> TRUE, req |-> r]
Err == [ok |-> FALSE, req |-> NoRequest]

\* The four fields in declaration order, as the derived visit_seq reads them.
FieldsWellTyped(jsonrpc, method, params, id) ==
    jsonrpc.kind = "string" /\ method.kind = "string" /\ IsU64(id)

\* serde_json::from_value of the derived Deserialize.  deserialize_struct takes
\* an object through visit_map (every field required, unknown keys ignored) and
\* an array through visit_seq (exactly the four fields, in declaration order).
RpcRequest_from_json(j) ==
    IF j.kind = "object"
    THEN IF {"jsonrpc", "method", "params", "id"} \subseteq DOMAIN j.map
            /\ FieldsWellTyped(j.map["jsonrpc"], j.map["method"], j.map["params"], j.map["id"])
         THEN Ok(Request(j.map["jsonrpc"].s, j.map["method"].s, j.map["params"], j.map["id"].n))
         ELSE Err
    ELSE IF j.kind = "array"
    THEN IF Len(j.items) = 4 /\ FieldsWellTyped(j.items[1], j.items[2], j.items[3], j.items[4])
         THEN Ok(Request(j.items[1].s, j.items[2].s, j.items[3], j.items[4].n))
         ELSE Err
    ELSE Err

(***************************************************************************)
(* RpcResponse: the wrapped document and its pure operations.              *)
(***************************************************************************)
NoResponse == [none |-> TRUE]

\* json!({"jsonrpc": "2.0", "id": id})
ResponseNewNullResult(id) == Object([jsonrpc |-> Str("2.0"), id |-> UInt(id), result |-> Null])
RpcResponse_new(id) == Object([jsonrpc |-> Str("2.0"), id |-> UInt(id)])

RpcResponse_from_json(value) == value

as_json(value) == value

\* value.get("id").and_then(as_u64).unwrap_or(0)
ResponseIdAsI64(value) ==
    IF HasKey(value, "id") /\ value.map["id"].kind \in {"uint", "negint"}
    THEN value.map["id"].n ELSE 0
RpcResponse_id(value) ==
    IF HasKey(value, "id") /\ IsU64(value.map["id"]) THEN value.map["id"].n ELSE 0

\* value.get("result").unwrap_or(&Null)
ResultOrError(value) ==
    IF HasKey(value, "result") THEN value.map["result"]
    ELSE IF HasKey(value, "error") THEN value.map["error"] ELSE Null
RpcResponse_result(value) == IF HasKey(value, "result") THEN value.map["result"] ELSE Null

\* value.get("error").unwrap_or(&Null)
ErrorOrEmptyObject(value) == IF HasKey(value, "error") THEN value.map["error"] ELSE Object(EmptyMap)
RpcResponse_error(value) == IF HasKey(value, "error") THEN value.map["error"] ELSE Null

\* IndexMut<&str> for Value: null becomes an empty object first, an object
\* gets the entry, and every other value panics.
IndexMutPanics(value) == value.kind \notin {"null", "object"}

IndexMutAssign(value, key, x) ==
    Object(Insert(IF value.kind = "null" THEN EmptyMap ELSE value.map, key, x))

\* self.value["result"] = result
SetResultClearsError(value, x) ==
    Object([k \in (DOMAIN IndexMutAssign(value, "result", x).map) \ {"error"} |->
               IndexMutAssign(value, "result", x).map[k]])
RpcResponse_set_result(value, x) == IndexMutAssign(value, "result", x)

\* self.value["error"] = error
SetErrorKeepsFirst(value, x) ==
    IF HasKey(value, "error") THEN value ELSE IndexMutAssign(value, "error", x)
RpcResponse_set_error(value, x) == IndexMutAssign(value, "error", x)

(***************************************************************************)
(* Inputs.                                                                 *)
(***************************************************************************)
MethodTexts == {"", "get_balance", "transfer"}

\* Arguments of set_params, set_result and set_error.
JsonArgs ==
    {Null, UInt(U64Max), Str("success"), Array(<<UInt(1), Str("two")>>),
     Object([code |-> NegInt(-1)])}

Absent == [kind |-> "absent"]

\* The object that holds the entries of `slots` that are not Absent.
ObjectOf(slots) == Object([k \in {key \in DOMAIN slots : slots[key] # Absent} |-> slots[k]])

NonObjects == {Null, Bool(TRUE), UInt(1), Str("text"), Array(<<>>), Array(<<UInt(1)>>)}

\* Documents handed to RpcRequest::from_json: objects with each of the four
\* keys absent, well typed or mistyped.
RequestObjects ==
    {ObjectOf(slots) : slots \in
        [jsonrpc : {Absent, Str("2.0"), UInt(2)},
         method : {Absent, Str("get_balance"), Null},
         params : {Absent, Null},
         id : {Absent, UInt(U64Max), Str("1"), NegInt(-1), Float(3)}]}

\* The documents of test_json_deserialization, one with an unknown key and one
\* with another protocol version.
RequestExtras ==
    {Object([invalid |-> Str("structure")]),
     Object([jsonrpc |-> Str("2.0"), method |-> Str("test_method"),
             params |-> Object([account |-> Str("123")]), id |-> UInt(1)]),
     Object([jsonrpc |-> Str("2.0"), method |-> Str(""), params |-> Null, id |-> UInt(0),
             invalid |-> Str("structure")]),
     Object([jsonrpc |-> Str("1.0"), method |-> Str("get_balance"), params |-> Null,
             id |-> UInt(1)])}

RequestArrays ==
    {Array(<<Str("2.0"), Str("get_balance"), Null, UInt(1)>>),
     Array(<<Str("2.0"), Str("get_balance"), Null>>),
     Array(<<Str("2.0"), Str("get_balance"), Null, UInt(1), Null>>),
     Array(<<Str("2.0"), Str("get_balance"), Null, Str("1")>>)}

RequestDocs == RequestObjects \cup RequestExtras \cup RequestArrays \cup NonObjects

\* Documents handed to RpcResponse::from_json.
ResponseObjects ==
    {ObjectOf(slots) : slots \in
        [jsonrpc : {Absent, Str("2.0")},
         id : {Absent, UInt(0), UInt(U64Max), Str("not_a_number"), NegInt(-1), Float(3),
               Null, Bool(TRUE), Array(<<UInt(1)>>), Object([n |-> UInt(1)])},
         result : {Absent, Null, Str("test")},
         error : {Absent, Null, Object([code |-> NegInt(-1)])}]}

ResponseDocs == ResponseObjects \cup NonObjects

(***************************************************************************)
(* State.                                                                  *)
(***************************************************************************)
VARIABLES
    NEXT_ID,    \* the static AtomicU64
    issued,     \* number of fetch_add calls made so far
    pc,         \* pc[t]: where thread t is inside RpcRequest::new()
    fetched,    \* fetched[t]: what fetch_add returned to t, and its ordinal
    before,     \* before[t]: ordinals of the calls that had returned when t's call began
    returned,   \* the completed new() calls, in the order they returned
    req,        \* req[t]: the Request thread t owns
    parsed,     \* the last RpcRequest::from_json call: its input and its Result
    resp,       \* the document of the Response
    last,       \* the last Response operation and its argument
    panicked    \* a Response operation panicked

vars == <<NEXT_ID, issued, pc, fetched, before, returned, req, parsed, resp, last, panicked>>

idVars == <<NEXT_ID, issued, pc, fetched, before, returned>>
requestVars == <<req, parsed>>
responseVars == <<resp, last, panicked>>

NoResult == [none |-> TRUE]
NoFetch == [id |-> 0, ord |-> 0]
NoOp == [op |-> "none", arg |-> Null]

Init ==
    /\ NEXT_ID = 1
    /\ issued = 0
    /\ pc = [t \in Threads |-> "idle"]
    /\ fetched = [t \in Threads |-> NoFetch]
    /\ before = [t \in Threads |-> {}]
    /\ returned = <<>>
    /\ req = [t \in Threads |-> NoRequest]
    /\ parsed = NoResult
    /\ resp = NoResponse
    /\ last = NoOp
    /\ panicked = FALSE

(***************************************************************************)
(* RpcRequest::new() on thread t, in three steps: the call begins, the     *)
(* fetch_add on NEXT_ID, the struct is returned to the caller.             *)
(***************************************************************************)
Started == issued + Cardinality({t \in Threads : pc[t] = "fetch"})

NewBegin(t) ==
    /\ pc[t] = "idle"
    /\ Started < MaxCalls
    /\ pc' = [pc EXCEPT ![t] = "fetch"]
    /\ before' = [before EXCEPT ![t] = {returned[i].ord : i \in DOMAIN returned}]
    /\ UNCHANGED <<NEXT_ID, issued, fetched, returned, req, parsed, resp, last, panicked>>

NewFetchAdd(t) ==
    /\ pc[t] = "fetch"
    /\ fetched' = [fetched EXCEPT ![t] = [id |-> NEXT_ID, ord |-> issued + 1]]
    /\ NEXT_ID' = fetch_add(NEXT_ID)
    /\ issued' = issued + 1
    /\ pc' = [pc EXCEPT ![t] = "return"]
    /\ UNCHANGED <<before, returned, req, parsed, resp, last, panicked>>

NewReturn(t) ==
    /\ pc[t] = "return"
    /\ req' = [req EXCEPT ![t] = RpcRequest_new(fetched[t].id)]
    /\ returned' = Append(returned, [req |-> RpcRequest_new(fetched[t].id), by |-> t,
                                      ord |-> fetched[t].ord, before |-> before[t]])
    /\ pc' = [pc EXCEPT ![t] = "idle"]
    /\ UNCHANGED <<NEXT_ID, issued, fetched, before, parsed, resp, last, panicked>>

(***************************************************************************)
(* The operations on the Request thread t owns.                            *)
(***************************************************************************)
SetMethod(t, method) ==
    /\ pc[t] = "idle"
    /\ req[t] # NoRequest
    /\ req' = [req EXCEPT ![t] = RpcRequest_set_method(req[t], method)]
    /\ UNCHANGED <<idVars, parsed, responseVars>>

SetParams(t, params) ==
    /\ pc[t] = "idle"
    /\ req[t] # NoRequest
    /\ req' = [req EXCEPT ![t] = RpcRequest_set_params(req[t], params)]
    /\ UNCHANGED <<idVars, parsed, responseVars>>

\* r.clone() on the Request thread t owns; the copy is handed to thread u.
Clone(t, u) ==
    /\ t # u
    /\ pc[t] = "idle" /\ pc[u] = "idle"
    /\ req[t] # NoRequest
    /\ req' = [req EXCEPT ![u] = RpcRequest_clone(req[t])]
    /\ UNCHANGED <<idVars, parsed, responseVars>>

\* A from_json that reserves the id it reads by advancing the counter past it.
FromJsonReservesId(j) ==
    /\ parsed' = [input |-> j, res |-> RpcRequest_from_json(j)]
    /\ NEXT_ID' = IF RpcRequest_from_json(j).ok /\ RpcRequest_from_json(j).req.id >= NEXT_ID
                  THEN fetch_add(RpcRequest_from_json(j).req.id) ELSE NEXT_ID
    /\ UNCHANGED <<issued, pc, fetched, before, returned, req, responseVars>>

\* RpcRequest::from_json(j) on a received document.
FromJson(j) ==
    /\ parsed' = [input |-> j, res |-> RpcRequest_from_json(j)]
    /\ UNCHANGED <<idVars, req, responseVars>>

\* RpcRequest::from_json(r.to_json()) on the Request thread t owns.
RoundTrip(t) ==
    /\ pc[t] = "idle"
    /\ req[t] # NoRequest
    /\ FromJson(RpcRequest_to_json(req[t]))

(***************************************************************************)
(* The operations on the Response.                                         *)
(***************************************************************************)
ResponseNew(id) ==
    /\ ~panicked
    /\ resp' = RpcResponse_new(id)
    /\ last' = [op |-> "new", arg |-> UInt(id)]
    /\ UNCHANGED <<idVars, requestVars, panicked>>

ResponseFromJson(value) ==
    /\ ~panicked
    /\ resp' = RpcResponse_from_json(value)
    /\ last' = [op |-> "from_json", arg |-> value]
    /\ UNCHANGED <<idVars, requestVars, panicked>>

SetResult(x) ==
    /\ ~panicked
    /\ resp # NoResponse
    /\ last' = [op |-> "set_result", arg |-> x]
    /\ IF IndexMutPanics(resp)
       THEN panicked' = TRUE /\ resp' = resp
       ELSE panicked' = FALSE /\ resp' = RpcResponse_set_result(resp, x)
    /\ UNCHANGED <<idVars, requestVars>>

SetError(x) ==
    /\ ~panicked
    /\ resp # NoResponse
    /\ last' = [op |-> "set_error", arg |-> x]
    /\ IF IndexMutPanics(resp)
       THEN panicked' = TRUE /\ resp' = resp
       ELSE panicked' = FALSE /\ resp' = RpcResponse_set_error(resp, x)
    /\ UNCHANGED <<idVars, requestVars>>

(***************************************************************************)
(* Specifications.                                                         *)
(***************************************************************************)
\* Any number of threads inside RpcRequest::new().
NextNew ==
    \E t \in Threads : NewBegin(t) \/ NewFetchAdd(t) \/ NewReturn(t)

SpecNew == Init /\ [][NextNew]_vars

\* One thread that builds Requests, sets their fields and parses documents.
NextRequest ==
    \/ NewBegin(MainThread)
    \/ NewFetchAdd(MainThread)
    \/ NewReturn(MainThread)
    \/ \E method \in MethodTexts : SetMethod(MainThread, method)
    \/ \E params \in JsonArgs : SetParams(MainThread, params)
    \/ \E j \in RequestDocs : FromJson(j)
    \/ RoundTrip(MainThread)

SpecRequest == Init /\ [][NextRequest]_vars

\* One Response, built or wrapped, and its setters.
NextResponse ==
    \/ \E id \in U64 : ResponseNew(id)
    \/ \E value \in ResponseDocs : ResponseFromJson(value)
    \/ \E x \in JsonArgs : SetResult(x)
    \/ \E x \in JsonArgs : SetError(x)

SpecResponse == Init /\ [][NextResponse]_vars

\* The thread that receives the copies of the main thread's Request.
CopyThread == CHOOSE t \in Threads \ {MainThread} : \A u \in Threads \ {MainThread} : t <= u

\* Documents received by the program below.
ProgramDocs ==
    {Object([invalid |-> Str("structure")]),
     Object([jsonrpc |-> Str("2.0"), method |-> Str("get_balance"), params |-> Null,
             id |-> UInt(U64Max)])}

\* The ids of the Requests at hand, for the Response that answers one.
RequestIds == {req[t].id : t \in {u \in Threads : req[u] # NoRequest}}

\* Every operation of the program, driven the way examples/basic_usage.rs
\* does: one thread builds Requests, sets their fields, copies, serializes
\* and parses them, and answers them with a Response.
NextProgram ==
    \/ NewBegin(MainThread)
    \/ NewFetchAdd(MainThread)
    \/ NewReturn(MainThread)
    \/ \E t \in {MainThread, CopyThread} : SetMethod(t, "transfer")
    \/ SetParams(MainThread, Str("success"))
    \/ Clone(MainThread, CopyThread)
    \/ RoundTrip(MainThread)
    \/ \E j \in ProgramDocs : FromJson(j)
    \/ \E id \in RequestIds : ResponseNew(id)
    \/ ResponseFromJson(Bool(TRUE))
    \/ SetResult(Str("success"))
    \/ SetError(Object([code |-> NegInt(-1)]))

SpecProgram == Init /\ [][NextProgram]_vars

\* The whole program.  The three parts share no state, so each property is
\* checked under the specification of its part.
Next == NextNew \/ NextRequest \/ NextResponse

Spec == Init /\ [][Next]_vars

(***************************************************************************)
(* Properties of the id counter (SpecNew).                                 *)
(***************************************************************************)
Calls == DOMAIN returned

\* The calls that obtained their id before the counter wrapped: the first
\* 2^W - 1 fetch_add calls.
BeforeWrap(i) == returned[i].ord <= U64Max

\* Two calls neither of which had returned when the other began.
Overlap(i, j) ==
    /\ returned[i].by # returned[j].by
    /\ returned[j].ord \notin returned[i].before
    /\ returned[i].ord \notin returned[j].before

\* C1 as stated: the ids returned by all the new() calls made so far, by any
\* threads in any interleaving, are pairwise distinct and each is at least 1.
C1_AllIdsDistinct ==
    /\ \A i, j \in Calls : i # j => returned[i].req.id # returned[j].req.id
    /\ \A i \in Calls : returned[i].req.id >= 1

\* C1 amended: the ids returned by the first 2^W - 1 new() calls, by any
\* threads in any interleaving, are pairwise distinct and each is at least 1.
C1_IdsDistinctBeforeWrap ==
    /\ \A i, j \in Calls :
          (i # j /\ BeforeWrap(i) /\ BeforeWrap(j)) => returned[i].req.id # returned[j].req.id
    /\ \A i \in Calls : BeforeWrap(i) => returned[i].req.id >= 1

\* Two overlapping calls on different threads have both returned, the later
\* fetch_add having returned first.
C1_Witness ==
    \E i, j \in Calls :
        /\ i < j /\ returned[i].ord > returned[j].ord
        /\ Overlap(i, j) /\ BeforeWrap(i) /\ BeforeWrap(j)

\* C2 as stated: a call that began after another call had returned has the
\* strictly greater id, and the first call has an id of at least 1.
C2_IdsIncrease ==
    /\ \A i, j \in Calls :
          returned[j].ord \in returned[i].before => returned[i].req.id > returned[j].req.id
    /\ \A i \in Calls : returned[i].ord = 1 => returned[i].req.id >= 1

\* C2 amended: among the first 2^W - 1 calls, a call that began after another
\* call had returned has the strictly greater id, and the first call has an
\* id of at least 1.
C2_IdsIncreaseBeforeWrap ==
    /\ \A i, j \in Calls :
          (BeforeWrap(i) /\ returned[j].ord \in returned[i].before)
              => returned[i].req.id > returned[j].req.id
    /\ \A i \in Calls : returned[i].ord = 1 => returned[i].req.id >= 1

\* A call on one thread began after a call on another thread had returned.
C2_Witness ==
    \E i, j \in Calls :
        /\ returned[j].ord \in returned[i].before
        /\ returned[i].by # returned[j].by
        /\ BeforeWrap(i)

\* C9: every Request new() returns has an empty method, null params and
\* version "2.0", whatever the counter holds and the other threads do.
C9_NewDefaults ==
    /\ \A i \in Calls :
          /\ returned[i].req.method = ""
          /\ returned[i].req.params = Null
          /\ returned[i].req.jsonrpc = "2.0"
    /\ \A t \in Threads :
          (req[t] # NoRequest) => (req[t].method = "" /\ req[t].params = Null /\ req[t].jsonrpc = "2.0")

\* A call returned after the counter had wrapped while another thread was
\* inside new().
C9_Witness ==
    \E i \in Calls :
        /\ ~BeforeWrap(i)
        /\ i = Len(returned)
        /\ \E t \in Threads : t # returned[i].by /\ pc[t] = "return"

(***************************************************************************)
(* Properties of RpcRequest (SpecRequest).                                 *)
(***************************************************************************)
RequestKeys == {"jsonrpc", "method", "params", "id"}

\* C3: from_json(r.to_json()) succeeds and yields the method, params and id
\* of r, for every Request r built by new() and the setters.
C3_RoundTrip ==
    \A t \in Threads :
        (req[t] # NoRequest /\ parsed # NoResult /\ parsed.input = RpcRequest_to_json(req[t]))
            => /\ parsed.res.ok
               /\ parsed.res.req.method = req[t].method
               /\ parsed.res.req.params = req[t].params
               /\ parsed.res.req.id = req[t].id

\* The round trip of a Request with a method, object params and the maximal id.
C3_Witness ==
    /\ req[MainThread] # NoRequest
    /\ parsed # NoResult
    /\ parsed.input = RpcRequest_to_json(req[MainThread])
    /\ parsed.res.ok
    /\ req[MainThread].method = "get_balance"
    /\ req[MainThread].params = Object([code |-> NegInt(-1)])
    /\ req[MainThread].id = U64Max

\* A key of the document is present and not of the type of its field.
Mistyped(j) ==
    \/ HasKey(j, "jsonrpc") /\ j.map["jsonrpc"].kind # "string"
    \/ HasKey(j, "method") /\ j.map["method"].kind # "string"
    \/ HasKey(j, "id") /\ j.map["id"].kind # "uint"

\* C6: from_json(j) is an error whenever j lacks one of the four keys or has
\* jsonrpc or method that is no string or id that is no u64, and succeeds
\* when the four keys are present and well typed.
C6_FromJsonValidates ==
    parsed # NoResult =>
        /\ ((\E key \in RequestKeys : ~HasKey(parsed.input, key)) \/ Mistyped(parsed.input))
               => ~parsed.res.ok
        /\ ((\A key \in RequestKeys : HasKey(parsed.input, key)) /\ ~Mistyped(parsed.input))
               => parsed.res.ok

\* The Request thread t obtained from its last new() call.
Constructed(t) ==
    returned[CHOOSE i \in Calls : returned[i].by = t
                 /\ \A k \in Calls : returned[k].by = t => k <= i].req

\* C11: the id of a Request is the one it had right after construction,
\* whatever setters, to_json and accessors ran on it; set_method changes only
\* the method field and set_params only the params field.
C11_IdImmutable ==
    [][\A t \in Threads :
        /\ (req'[t] # NoRequest /\ pc'[t] = "idle") => req'[t].id = Constructed(t)'.id
        /\ (\E method \in MethodTexts : SetMethod(t, method))
              => req'[t] = [req[t] EXCEPT !.method = req'[t].method]
        /\ (\E params \in JsonArgs : SetParams(t, params))
              => req'[t] = [req[t] EXCEPT !.params = req'[t].params]
        /\ RoundTrip(t) => req'[t] = req[t]]_vars

\* A Request whose method and params were both set after construction.
C11_Witness ==
    /\ req[MainThread] # NoRequest
    /\ req[MainThread].method = "transfer"
    /\ req[MainThread].params = Str("success")
    /\ req[MainThread].id = Constructed(MainThread).id
    /\ parsed # NoResult /\ parsed.input = RpcRequest_to_json(req[MainThread])

\* The Request values that exist: the ones the threads own and the one the
\* last from_json call returned.
Requests ==
    {req[t] : t \in {u \in Threads : req[u] # NoRequest}}
        \cup (IF parsed # NoResult /\ parsed.res.ok THEN {parsed.res.req} ELSE {})

\* C12: every Request that exists, from new(), from from_json on an accepted
\* document or after any setters, serializes with jsonrpc = "2.0".
C12_VersionFixed ==
    \A r \in Requests : RpcRequest_to_json(r).map["jsonrpc"] = Str("2.0")

\* C16: for every Request r that exists, to_json() is an object with exactly
\* the keys jsonrpc, method, params and id, holding "2.0", r.method(),
\* r.params() and r.id().
C16_ToJsonShape ==
    \A r \in Requests :
        /\ RpcRequest_to_json(r).kind = "object"
        /\ DOMAIN RpcRequest_to_json(r).map = RequestKeys
        /\ RpcRequest_to_json(r).map["jsonrpc"] = Str("2.0")
        /\ RpcRequest_to_json(r).map["method"] = Str(r.method)
        /\ RpcRequest_to_json(r).map["params"] = r.params
        /\ RpcRequest_to_json(r).map["id"] = UInt(r.id)

\* C17: set_method and set_params accept every value, the record then holds
\* the argument of the call, and it stays a complete Request after each step.
C17_SettersTakeAnyValue ==
    [][\A t \in Threads :
        /\ (req[t] # NoRequest /\ pc[t] = "idle") =>
              /\ \A method \in MethodTexts : ENABLED SetMethod(t, method)
              /\ \A params \in JsonArgs : ENABLED SetParams(t, params)
        /\ \A method \in MethodTexts : SetMethod(t, method) =>
              /\ req'[t].method = method
              /\ DOMAIN req'[t] = RequestKeys
        /\ \A params \in JsonArgs : SetParams(t, params) =>
              /\ req'[t].params = params
              /\ DOMAIN req'[t] = RequestKeys]_vars

\* A Request whose method was set and whose params were set to an array.
C17_Witness ==
    /\ req[MainThread] # NoRequest
    /\ req[MainThread].method = "transfer"
    /\ req[MainThread].params = Array(<<UInt(1), Str("two")>>)
    /\ DOMAIN req[MainThread] = RequestKeys

(***************************************************************************)
(* Properties of RpcResponse (SpecResponse).                               *)
(***************************************************************************)
\* C4: a set_result call leaves error() unchanged and a set_error call
\* leaves result() unchanged, in any order and with any repetition.
C4_SettersIndependent ==
    [][/\ (\E x \in JsonArgs : SetResult(x))
            => RpcResponse_error(resp') = RpcResponse_error(resp)
       /\ (\E x \in JsonArgs : SetError(x))
            => RpcResponse_result(resp') = RpcResponse_result(resp)]_vars

\* set_error has just run on a Response whose result was set by set_result:
\* both are set at the same time.
C4_Witness ==
    /\ last.op = "set_error"
    /\ ~panicked
    /\ RpcResponse_result(resp) = Str("success")
    /\ RpcResponse_error(resp) = Object([code |-> NegInt(-1)])

\* C5: no operation on a Response fails, whatever JSON value it wraps.
C5_NoOperationFails == ~panicked

\* C7: id() is the value of the id key when the key holds a u64, and 0 when
\* the key is absent, holds anything else, or the document is no object.
C7_IdDegrades ==
    resp # NoResponse =>
        /\ resp.kind # "object" => RpcResponse_id(resp) = 0
        /\ (resp.kind = "object" /\ "id" \notin DOMAIN resp.map) => RpcResponse_id(resp) = 0
        /\ (resp.kind = "object" /\ "id" \in DOMAIN resp.map) =>
              /\ resp.map["id"].kind = "uint" => RpcResponse_id(resp) = resp.map["id"].n
              /\ resp.map["id"].kind \in {"string", "negint", "float", "null", "bool",
                                           "array", "object"} => RpcResponse_id(resp) = 0

\* A wrapped document whose id is a negative number reads as id 0.
C7_Witness ==
    /\ last.op = "from_json"
    /\ HasKey(resp, "id")
    /\ resp.map["id"] = NegInt(-1)
    /\ RpcResponse_id(resp) = 0

\* C8: result() and error() are the values under their keys when present and
\* null when absent or when the document is no object; a document with only
\* an error key has a null result().
C8_ResultErrorDegrade ==
    resp # NoResponse =>
        /\ RpcResponse_result(resp) =
              IF resp.kind = "object" /\ "result" \in DOMAIN resp.map
              THEN resp.map["result"] ELSE Null
        /\ RpcResponse_error(resp) =
              IF resp.kind = "object" /\ "error" \in DOMAIN resp.map
              THEN resp.map["error"] ELSE Null

\* A wrapped document that carries an error and no result key.
C8_Witness ==
    /\ last.op = "from_json"
    /\ HasKey(resp, "error") /\ ~HasKey(resp, "result")
    /\ RpcResponse_error(resp) = Object([code |-> NegInt(-1)])
    /\ RpcResponse_result(resp) = Null

\* C10: new(k) holds exactly the keys jsonrpc = "2.0" and id = k, so that
\* id() = k, result() = null and error() = null, for every k from 0 to the
\* maximum.
C10_NewResponse ==
    last.op = "new" =>
        /\ resp.kind = "object"
        /\ DOMAIN resp.map = {"jsonrpc", "id"}
        /\ resp.map["jsonrpc"] = Str("2.0")
        /\ resp.map["id"] = last.arg
        /\ RpcResponse_id(resp) = last.arg.n
        /\ RpcResponse_result(resp) = Null
        /\ RpcResponse_error(resp) = Null

\* new(k) for the maximal k.
C10_Witness ==
    /\ last = [op |-> "new", arg |-> UInt(U64Max)]
    /\ RpcResponse_id(resp) = U64Max

\* C14: on an object document set_result(v) makes result() = v and
\* set_error(e) makes error() = e, overwriting an earlier value, and changes
\* no other key: id(), jsonrpc and every other entry stay as they were.
C14_SettersWriteOwnKey ==
    [][/\ \A x \in JsonArgs : (SetResult(x) /\ resp.kind = "object") =>
              /\ RpcResponse_result(resp') = x
              /\ DOMAIN resp'.map = DOMAIN resp.map \cup {"result"}
              /\ \A key \in DOMAIN resp.map \ {"result"} : resp'.map[key] = resp.map[key]
              /\ RpcResponse_id(resp') = RpcResponse_id(resp)
       /\ \A x \in JsonArgs : (SetError(x) /\ resp.kind = "object") =>
              /\ RpcResponse_error(resp') = x
              /\ DOMAIN resp'.map = DOMAIN resp.map \cup {"error"}
              /\ \A key \in DOMAIN resp.map \ {"error"} : resp'.map[key] = resp.map[key]
              /\ RpcResponse_id(resp') = RpcResponse_id(resp)]_vars

\* set_result has just overwritten the result of a Response that holds an
\* error, an id and a version.
C14_Witness ==
    /\ last = [op |-> "set_result", arg |-> UInt(U64Max)]
    /\ RpcResponse_result(resp) = UInt(U64Max)
    /\ RpcResponse_error(resp) = Str("success")
    /\ RpcResponse_id(resp) = U64Max
    /\ HasKey(resp, "jsonrpc")

\* The document without the entry of `key`.
Without(value, key) == Object([k \in DOMAIN value.map \ {key} |-> value.map[k]])

\* The document with `key` set to x.
With(value, key, x) == Object(Insert(value.map, key, x))

\* C15: two Responses that differ only in that one lacks the result (error)
\* key and the other holds null under it read the same result() (error());
\* two that differ only in a missing id and an id of 0 both read id() = 0;
\* as_json() tells each pair apart, and set_result(null) leaves the key
\* present with the value null.
C15_AbsentLikeDefault ==
    (resp # NoResponse /\ resp.kind = "object") =>
        /\ RpcResponse_result(Without(resp, "result")) = RpcResponse_result(With(resp, "result", Null))
        /\ RpcResponse_error(Without(resp, "error")) = RpcResponse_error(With(resp, "error", Null))
        /\ RpcResponse_id(Without(resp, "id")) = 0
        /\ RpcResponse_id(With(resp, "id", UInt(0))) = 0
        /\ \A key \in {"result", "error"} :
              as_json(Without(resp, key)) # as_json(With(resp, key, Null))
        /\ as_json(Without(resp, "id")) # as_json(With(resp, "id", UInt(0)))
        /\ (last = [op |-> "set_result", arg |-> Null] /\ ~panicked) =>
              /\ HasKey(as_json(resp), "result")
              /\ as_json(resp).map["result"] = Null
              /\ RpcResponse_result(resp) = RpcResponse_result(Without(resp, "result"))

\* set_result(null) has just run on a Response without an error.
C15_Witness ==
    /\ last = [op |-> "set_result", arg |-> Null]
    /\ ~panicked
    /\ HasKey(resp, "result") /\ ~HasKey(resp, "error")
    /\ RpcResponse_result(resp) = Null

(***************************************************************************)
(* More properties of the id counter (SpecNew).                            *)
(***************************************************************************)
\* C18: when N new() calls have completed and none is in progress, N below
\* the maximum, the ids returned are exactly 1..N and the counter holds
\* N + 1; the first call returns 1.
C18_NoGaps ==
    /\ ((\A t \in Threads : pc[t] = "idle") /\ Len(returned) < U64Max) =>
          /\ {returned[i].req.id : i \in Calls} = 1..Len(returned)
          /\ NEXT_ID = Len(returned) + 1
    /\ \A i \in Calls : returned[i].ord = 1 => returned[i].req.id = 1

\* Two overlapping calls have completed, the second id returned first, and
\* no call is in progress.
C18_Witness ==
    /\ \A t \in Threads : pc[t] = "idle"
    /\ Len(returned) = 2
    /\ returned[1].req.id = 2 /\ returned[2].req.id = 1
    /\ NEXT_ID = 3

\* C20: the counter wraps modulo 2^W: the n-th fetch_add returns n mod 2^W,
\* so the call made at 2^W - 1 returns 2^W - 1 and leaves 0, the next returns
\* 0 and the ones after it 1, 2, ... again; no call fails.
C20_CounterWraps ==
    /\ NEXT_ID = (issued + 1) % (2^W)
    /\ NEXT_ID \in U64
    /\ \A i \in Calls : returned[i].req.id = returned[i].ord % (2^W)
    /\ \A t \in Threads : pc[t] = "return" => fetched[t].id = fetched[t].ord % (2^W)
    /\ \A t \in Threads : pc[t] = "fetch" => ENABLED NewFetchAdd(t)

\* The calls at 2^W - 1, at 0 and at 1 again have all returned.
C20_Witness ==
    /\ \E i \in Calls : returned[i].ord = U64Max /\ returned[i].req.id = U64Max
    /\ \E i \in Calls : returned[i].ord = U64Max + 1 /\ returned[i].req.id = 0
    /\ \E i \in Calls : returned[i].ord = U64Max + 2 /\ returned[i].req.id = 1

(***************************************************************************)
(* Properties of the whole program (SpecProgram).                          *)
(***************************************************************************)
\* The places that hold a Request: the threads' own and the last parse.
Holders == {t \in Threads : req[t] # NoRequest}

Parsed == parsed # NoResult /\ parsed.res.ok

\* C13 as stated: no two distinct Requests in the process have the same id,
\* whether they came from new(), from from_json or from a copy.
C13_IdsProcessUnique ==
    /\ \A t, u \in Holders : t # u => req[t].id # req[u].id
    /\ \A t \in Holders : Parsed => parsed.res.req.id # req[t].id

\* C13 amended: no two of the first 2^W - 1 Requests returned by new() have
\* the same id; a copy carries the id of its original and a parsed Request
\* the id of its document, which other Requests may hold too.
C13_IdsUniquePerConstruction ==
    /\ \A i, j \in Calls :
          (i < j /\ BeforeWrap(i) /\ BeforeWrap(j)) => returned[j].req.id # returned[i].req.id
    /\ \A t \in Holders : \E i \in Calls : req[t].id = returned[i].req.id
    /\ (Parsed /\ parsed.input.kind = "object") => parsed.res.req.id = parsed.input.map["id"].n

\* A Request, its copy with another method and its parsed serialization all
\* hold the same id.
C13_Witness ==
    /\ Holders = {MainThread, CopyThread}
    /\ req[CopyThread].id = req[MainThread].id
    /\ req[CopyThread].method # req[MainThread].method
    /\ Parsed /\ parsed.res.req.id = req[MainThread].id
    /\ parsed.input = RpcRequest_to_json(req[MainThread])

\* C19: only the fetch_add of new() changes the counter; from_json, the
\* to_json round trip, the setters, a copy and every Response operation
\* leave it as it is, a parsed Request holds the id of its document, and the
\* id new() returns depends on the number of new() calls alone.
C19_OnlyNewTouchesCounter ==
    [][/\ (\A t \in Threads : ~NewFetchAdd(t)) => NEXT_ID' = NEXT_ID
       /\ \A t \in Threads : NewFetchAdd(t) =>
              /\ fetched'[t].id = NEXT_ID
              /\ fetched'[t].id = (issued + 1) % (2^W)
       /\ (parsed' # NoResult /\ parsed'.res.ok /\ parsed'.input.kind = "object")
              => parsed'.res.req.id = parsed'.input.map["id"].n]_vars

\* new() has returned after from_json accepted a document with a larger id,
\* a copy was made and a Response was set.
C19_Witness ==
    /\ Parsed /\ parsed.input \in ProgramDocs
    /\ req[MainThread] # NoRequest /\ req[MainThread].id < parsed.res.req.id
    /\ req[CopyThread] # NoRequest /\ req[CopyThread].id < req[MainThread].id
    /\ last.op = "set_error"
    /\ NEXT_ID = req[MainThread].id + 1

====
